---- MODULE Spec2Model ----
(***************************************************************************)
(* KubeHost: model of utils/deploy_to_kub.py, utils/build_docker_image.py  *)
(* and the deploy handler of main.py.                                      *)
(*                                                                         *)
(* Strings are sequences of one-character strings, so that sanitize_name   *)
(* is computed character by character as the regular expressions of the    *)
(* source compute it.  Time is counted in whole seconds.                   *)
(***************************************************************************)
EXTENDS Integers, Sequences, FiniteSets, TLC

\* ------------------------------------------------------------------------
\* Bounds of the model
\* ------------------------------------------------------------------------

\* longest tail appended to the padding of a candidate name (SpecSanitize)
MaxTail == 3

\* longest tail of a line of a .env text after its prefix (SpecParse)
MaxEnvTail == 4

\* ------------------------------------------------------------------------
\* sanitize_name (deploy_to_kub.py:10-16)
\* ------------------------------------------------------------------------

\* name[:63]
NameLimit == 63

LowerLetters ==
    {"a","b","c","d","e","f","g","h","i","j","k","l","m",
     "n","o","p","q","r","s","t","u","v","w","x","y","z"}

Digits == {"0","1","2","3","4","5","6","7","8","9"}

\* the character class [a-z0-9-]
AllowedChars == LowerLetters \cup Digits \cup {"-"}

\* str.lower() on the characters the model draws names from
LowerChar(c) ==
    CASE c = "A" -> "a"
      [] c = "B" -> "b"
      [] c = "M" -> "m"
      [] OTHER -> c

Lower(s) == [i \in DOMAIN s |-> LowerChar(s[i])]

\* re.sub(r'[^a-z0-9-]', '-', name)
ReplaceInvalid(s) ==
    [i \in DOMAIN s |-> IF s[i] \in AllowedChars THEN s[i] ELSE "-"]

\* re.sub(r'-+', '-', name)
RECURSIVE CollapseHyphens(_)
CollapseHyphens(s) ==
    IF Len(s) <= 1 THEN s
    ELSE IF s[1] = "-" /\ s[2] = "-" THEN CollapseHyphens(Tail(s))
    ELSE <<s[1]>> \o CollapseHyphens(Tail(s))

RECURSIVE StripLeft(_)
StripLeft(s) ==
    IF s # <<>> /\ s[1] = "-" THEN StripLeft(Tail(s)) ELSE s

RECURSIVE StripRight(_)
StripRight(s) ==
    IF s # <<>> /\ s[Len(s)] = "-" THEN StripRight(SubSeq(s, 1, Len(s) - 1)) ELSE s

\* name.strip('-')
StripHyphens(s) == StripRight(StripLeft(s))

\* name[:n]
Truncate(s, n) == IF Len(s) <= n THEN s ELSE SubSeq(s, 1, n)

sanitize_name(name) ==
    Truncate(StripHyphens(CollapseHyphens(ReplaceInvalid(Lower(name)))), NameLimit)

\* ------------------------------------------------------------------------
\* Inputs and bounds of the deployment model
\* ------------------------------------------------------------------------

\* largest latency, in seconds, of the status queries of one poll iteration
MaxLatency == 1

\* largest replica count a scale_app call asks for
MaxScale == 1

\* the app names requests are made with: "My App" and "!!"
AppNames == { <<"M","y"," ","A","p","p">>, <<"!","!">> }

\* ------------------------------------------------------------------------
\* Program constants
\* ------------------------------------------------------------------------

\* wait_for_deployment(app_name, namespace, timeout=180)
Timeout == 180

\* time.sleep(5)
PollInterval == 5

\* int(time.time() - start_time) % 30 == 0
SamplePeriod == 30

\* "replicas: 3" of the Deployment manifest
Replicas == 3

\* ------------------------------------------------------------------------
\* State
\* ------------------------------------------------------------------------

VARIABLES
    appName,      \* the app name the operations are called with (unsanitized)
    pc,           \* position of the deploy_to_k8s call
    idx,          \* index into apply_commands of the resource applied next
    applied,      \* resources this call applied successfully, in order
    attempted,    \* resources this call ran "kubectl apply" for, in order
    warnings,     \* optional resources whose apply failed (logged only)
    cluster,      \* the app's namespace in the cluster
    touched,      \* namespaces that kubectl commands were issued against
    nsDeleted,    \* delete_app removed the namespace at some point
    elapsed,      \* time.time() - start_time at the next loop test
    waitResult,   \* what wait_for_deployment returned
    obs,          \* the counts read by the poll that returned True
    sawEqual,     \* some poll read readyReplicas = spec.replicas >= 1
    seenErrors,   \* some sample of the wait listed a pod in an error state
    podQuery,     \* outcome of the pod query made for the failure report
    report,       \* the exception deploy_to_k8s raised
    url,          \* the URL deploy_to_k8s returned
    sIn, sOut, sAgain, spc,  \* sanitize_name applied once and twice
    req,          \* the requests the deploy handler of main.py is serving
    apps_data,    \* main.py: the in-memory list of deployed apps
    dataFile,     \* main.py: the content of apps.json
    k8s,          \* the objects of the cluster, all namespaces
    tmpFiles,     \* the manifest files of the temporary directory
    eIn, eOut, epc,  \* the environment parsing applied to a text
    lastCall,     \* the last delete_app or list_all_apps call and its result
    lastSample    \* the clock reading at the last pod sample of a wait

vars == <<appName, pc, idx, applied, attempted, warnings, cluster, touched,
          nsDeleted, elapsed, waitResult, obs, sawEqual, seenErrors, podQuery,
          report, url, sIn, sOut, sAgain, spc,
          req, apps_data, dataFile, k8s, tmpFiles, eIn, eOut, epc,
          lastCall, lastSample>>

deployVars == <<appName, pc, idx, applied, attempted, warnings, cluster, touched,
                nsDeleted, elapsed, waitResult, obs, sawEqual, seenErrors,
                podQuery, report, url>>

sanitizeVars == <<sIn, sOut, sAgain, spc>>

handlerVars == <<req, apps_data, dataFile, k8s, tmpFiles>>

parseVars == <<eIn, eOut, epc>>

callVars == <<lastCall>>

sampleVars == <<lastSample>>

\* what a step of deploy_to_k8s and of the lifecycle operations leaves alone
otherVars == <<sanitizeVars, handlerVars, parseVars, callVars, sampleVars>>

\* ------------------------------------------------------------------------
\* Names derived from the app name (deploy_to_kub.py:200-201, 570-571)
\* ------------------------------------------------------------------------

\* namespace = f"app-{app_name}"
NamespaceOf(name) == <<"a","p","p","-">> \o sanitize_name(name)

\* f"http://{app_name}.localhost"
UrlOf(name) ==
    <<"h","t","t","p",":","/","/">> \o sanitize_name(name)
        \o <<".","l","o","c","a","l","h","o","s","t">>

NoUrl == <<>>

\* ------------------------------------------------------------------------
\* apply_commands (deploy_to_kub.py:504-513)
\* ------------------------------------------------------------------------

\* apply_commands with the network policy moved in front of the service
ApplyCommandsNetworkEarly ==
    << [name |-> "namespace",  check |-> TRUE],
       [name |-> "quota",      check |-> TRUE],
       [name |-> "limits",     check |-> TRUE],
       [name |-> "deployment", check |-> TRUE],
       [name |-> "network",    check |-> TRUE],
       [name |-> "service",    check |-> TRUE],
       [name |-> "ingress",    check |-> TRUE],
       [name |-> "hpa",        check |-> FALSE] >>

\* apply_commands with the autoscaler checked like the other resources
ApplyCommandsHpaChecked ==
    << [name |-> "namespace",  check |-> TRUE],
       [name |-> "quota",      check |-> TRUE],
       [name |-> "limits",     check |-> TRUE],
       [name |-> "deployment", check |-> TRUE],
       [name |-> "service",    check |-> TRUE],
       [name |-> "ingress",    check |-> TRUE],
       [name |-> "hpa",        check |-> TRUE],
       [name |-> "network",    check |-> TRUE] >>

ApplyCommands ==
    << [name |-> "namespace",  check |-> TRUE],
       [name |-> "quota",      check |-> TRUE],
       [name |-> "limits",     check |-> TRUE],
       [name |-> "deployment", check |-> TRUE],
       [name |-> "service",    check |-> TRUE],
       [name |-> "ingress",    check |-> TRUE],
       [name |-> "hpa",        check |-> FALSE],
       [name |-> "network",    check |-> TRUE] >>

ResourceNames == { ApplyCommands[i].name : i \in DOMAIN ApplyCommands }

\* ------------------------------------------------------------------------
\* The cluster: the app's namespace
\* ------------------------------------------------------------------------

\* Pods as "kubectl get pods -o json" lists them: containerStatuses and
\* conditions of each item.
HealthyPod ==
    [name |-> "pod-ok",
     containers |-> << [state |-> "running", reason |-> ""] >>,
     conditions |-> << [type |-> "PodScheduled", status |-> "True",  message |-> ""],
                       [type |-> "Ready",        status |-> "True",  message |-> ""] >>]

CrashingPod ==
    [name |-> "pod-crash",
     containers |-> << [state |-> "waiting", reason |-> "CrashLoopBackOff"] >>,
     conditions |-> << [type |-> "PodScheduled", status |-> "True",  message |-> ""],
                       [type |-> "Ready",        status |-> "False", message |-> "containers not ready"] >>]

ExitedPod ==
    [name |-> "pod-exit",
     containers |-> << [state |-> "terminated", reason |-> "Error"] >>,
     conditions |-> << [type |-> "PodScheduled", status |-> "True",  message |-> ""] >>]

UnschedulablePod ==
    [name |-> "pod-pending",
     containers |-> << >>,
     conditions |-> << [type |-> "PodScheduled", status |-> "False", message |-> "Insufficient cpu"] >>]

\* a pod just created: its only False condition is neither Ready nor PodScheduled
StartingPod ==
    [name |-> "pod-new",
     containers |-> << >>,
     conditions |-> << [type |-> "Initialized", status |-> "False", message |-> ""] >>]

PodKinds == {HealthyPod, CrashingPod, ExitedPod, UnschedulablePod, StartingPod}

RECURSIVE SeqsUpTo(_, _)
SeqsUpTo(S, n) ==
    IF n = 0 THEN { <<>> }
    ELSE LET shorter == SeqsUpTo(S, n - 1)
         IN  shorter \cup { Append(q, x) : q \in shorter, x \in S }

\* what "kubectl get pods" can list for the app: no pod, one pod of any
\* kind, or a healthy pod beside a crashing one
PodLists == { <<>> } \cup { <<k>> : k \in PodKinds } \cup { <<HealthyPod, CrashingPod>> }

\* No namespace: nothing in it, no deployment, no pods.
EmptyCluster == [res |-> {}, desired |-> 0, ready |-> 0, pods |-> <<>>]

HasDeployment(c) == "deployment" \in c.res

\* A pod is in an error state: a container waiting or terminated, or a
\* Ready / PodScheduled condition that is False.
PodInErrorState(p) ==
    \/ \E i \in DOMAIN p.containers : p.containers[i].state \in {"waiting", "terminated"}
    \/ \E i \in DOMAIN p.conditions :
          /\ p.conditions[i].status = "False"
          /\ p.conditions[i].type \in {"Ready", "PodScheduled"}

SomePodInError(c) == \E i \in DOMAIN c.pods : PodInErrorState(c.pods[i])

\* ------------------------------------------------------------------------
\* get_pod_errors (deploy_to_kub.py:102-136)
\* ------------------------------------------------------------------------

\* for container_status in status.get("containerStatuses", [])
RECURSIVE ContainerErrors(_, _)
ContainerErrors(podName, cs) ==
    IF cs = <<>> THEN <<>>
    ELSE LET c == Head(cs)
             here == IF c.state = "waiting"
                        THEN << [pod |-> podName, what |-> "Waiting", text |-> c.reason] >>
                     ELSE IF c.state = "terminated"
                        THEN << [pod |-> podName, what |-> "Terminated", text |-> c.reason] >>
                     ELSE <<>>
         IN  here \o ContainerErrors(podName, Tail(cs))

\* pod conditions left out of the diagnostics
ConditionErrorsNone(podName, cs) == <<>>

\* for condition in status.get("conditions", [])
RECURSIVE ConditionErrors(_, _)
ConditionErrors(podName, cs) ==
    IF cs = <<>> THEN <<>>
    ELSE LET c == Head(cs)
             here == IF c.status = "False" /\ c.type \in {"Ready", "PodScheduled"}
                        THEN << [pod |-> podName, what |-> c.type, text |-> c.message] >>
                     ELSE <<>>
         IN  here \o ConditionErrors(podName, Tail(cs))

\* for pod in pods_data.get("items", [])
RECURSIVE PodErrors(_)
PodErrors(pods) ==
    IF pods = <<>> THEN <<>>
    ELSE LET p == Head(pods)
         IN  ContainerErrors(p.name, p.containers)
                \o ConditionErrors(p.name, p.conditions)
                \o PodErrors(Tail(pods))

\* the entry returned when the query or its JSON raises
FetchError == [pod |-> "", what |-> "Could not fetch pod errors", text |-> ""]

\* how "kubectl get pods -o json" can end
PodQueryOutcomes == {"ok", "nonzero", "exception"}

\* get_pod_errors(namespace, app_name) when the query ends as q
get_pod_errors(c, q) ==
    IF q = "ok" THEN PodErrors(c.pods)
    ELSE IF q = "exception" THEN << FetchError >>
    ELSE <<>>

\* ------------------------------------------------------------------------
\* What the cluster answers
\* ------------------------------------------------------------------------

\* The API server rejects an object whose name does not end in an
\* alphanumeric character; "app-" is such a name.
K8sAccepts(ns) == ns # <<>> /\ ns[Len(ns)] # "-"

\* "kubectl apply -f" of resource r into namespace ns can succeed
CanApply(c, r, ns) ==
    /\ K8sAccepts(ns)
    /\ r = "namespace" \/ "namespace" \in c.res

\* the cluster after a successful apply of r: an object of that kind and
\* name exists once; the Deployment manifest sets spec.replicas
ClusterApply(c, r) ==
    IF r = "deployment"
       THEN [c EXCEPT !.res = @ \cup {r}, !.desired = Replicas]
       ELSE [c EXCEPT !.res = @ \cup {r}]

\* stdout of jsonpath={.status.readyReplicas}: a count, or nothing when the
\* field is absent (no ready replica); <<>> is the empty string
ReadyOutputs(c) == IF c.ready = 0 THEN { <<>>, <<0>> } ELSE { <<c.ready>> }

\* stdout of jsonpath={.spec.replicas}, empty when the query fails
DesiredOutputs(c) == IF HasDeployment(c) THEN { <<>>, <<c.desired>> } ELSE { <<>> }

NoPoll == [rc |-> FALSE, ready |-> <<>>, desired |-> <<>>]

NoReport == [kind |-> "none", resource |-> "", diagnostics |-> <<>>, dump |-> FALSE]

\* ------------------------------------------------------------------------
\* wait_for_deployment (deploy_to_kub.py:138-185): its tests
\* ------------------------------------------------------------------------

\* while time.time() - start_time < timeout
LoopContinues(t) == t < Timeout

\* the readiness test without "ready_int >= 1"
IsReadyNoFloor(ready_int, desired_int) == ready_int >= desired_int

\* the readiness test with ">" for ">="
IsReadyStrict(ready_int, desired_int) == ready_int > desired_int /\ ready_int >= 1

\* if ready_int >= desired_int and ready_int >= 1
IsReady(ready_int, desired_int) == ready_int >= desired_int /\ ready_int >= 1

\* if result.returncode == 0 ... if ready and desired ... return True
PollSaysReady(p) ==
    /\ p.rc
    /\ p.ready # <<>> /\ p.desired # <<>>
    /\ IsReady(p.ready[1], p.desired[1])

\* if int(time.time() - start_time) % 30 == 0
SampleDue(t) == t % SamplePeriod = 0

\* a loop whose clock reading never moves on
AfterSleepStuck(t, lat) == t

\* the clock at the next loop test: the queries' latency, then time.sleep(5)
AfterSleep(t, lat) == t + lat + PollInterval

\* ------------------------------------------------------------------------
\* deploy_to_k8s (deploy_to_kub.py:187-565)
\* ------------------------------------------------------------------------

\* a failure handler that rolls the namespace back
OnFailureRollback(c) == EmptyCluster

\* the except clauses re-raise; nothing that was applied is removed
OnFailure(c) == c

\* raise Exception(...) for a rejected command
Fail(kind, resource) ==
    /\ pc' = "failed"
    /\ report' = [kind |-> kind, resource |-> resource, diagnostics |-> <<>>, dump |-> FALSE]
    /\ cluster' = OnFailure(cluster)

\* ensure_minikube_running(): "minikube status", then "minikube start"
\* with check=True when the host is not Running
EnsureMinikube ==
    /\ pc = "start"
    /\ \E running \in BOOLEAN, started \in BOOLEAN :
          IF running \/ started
             THEN pc' = "ingress" /\ UNCHANGED <<report, cluster>>
             ELSE Fail("bootstrap", "minikube")
    /\ UNCHANGED <<appName, idx, applied, attempted, warnings, touched, nsDeleted,
                   elapsed, waitResult, obs, sawEqual, seenErrors, podQuery, url>>
    /\ UNCHANGED otherVars

\* ensure_ingress_controller(): enable the addon with check=True when it
\* is not enabled, then "kubectl wait" with check=False
EnsureIngress ==
    /\ pc = "ingress"
    /\ \E enabled \in BOOLEAN, enableOk \in BOOLEAN, waitOk \in BOOLEAN :
          IF enabled \/ enableOk
             THEN pc' = "load" /\ UNCHANGED <<report, cluster>>
             ELSE Fail("bootstrap", "ingress")
    /\ UNCHANGED <<appName, idx, applied, attempted, warnings, touched, nsDeleted,
                   elapsed, waitResult, obs, sawEqual, seenErrors, podQuery, url>>
    /\ UNCHANGED otherVars

\* "minikube image load" (check=False, any exception caught) and
\* validate_image_exists, whose result is not used
LoadImage ==
    /\ pc = "load"
    /\ \E loaded \in {"ok", "nonzero", "timeout"}, found \in BOOLEAN :
          pc' = "apply"
    /\ idx' = 1
    /\ UNCHANGED <<appName, applied, attempted, warnings, cluster, touched, nsDeleted,
                   elapsed, waitResult, obs, sawEqual, seenErrors, podQuery, report, url>>
    /\ UNCHANGED otherVars

\* one iteration of "for resource_name, should_check in apply_commands"
Apply ==
    /\ pc = "apply"
    /\ LET cmd == ApplyCommands[idx]
           ns == NamespaceOf(appName)
           last == idx = Len(ApplyCommands)
           advance == /\ pc' = IF last THEN "wait" ELSE "apply"
                      /\ idx' = IF last THEN idx ELSE idx + 1
                      /\ elapsed' = 0
       IN  /\ attempted' = Append(attempted, cmd.name)
           /\ touched' = touched \cup {ns}
           /\ \E ok \in {TRUE, FALSE} :
                 /\ ok => CanApply(cluster, cmd.name, ns)
                 /\ IF ok
                       THEN /\ cluster' = ClusterApply(cluster, cmd.name)
                            /\ applied' = Append(applied, cmd.name)
                            /\ advance
                            /\ UNCHANGED <<warnings, report>>
                    ELSE IF cmd.check
                       THEN /\ Fail("apply", cmd.name)
                            /\ UNCHANGED <<idx, applied, warnings, elapsed>>
                    ELSE    /\ warnings' = Append(warnings, cmd.name)
                            /\ advance
                            /\ UNCHANGED <<cluster, applied, report>>
    /\ UNCHANGED <<appName, nsDeleted, waitResult, obs, sawEqual, seenErrors, podQuery, url>>
    /\ UNCHANGED otherVars

\* what one poll iteration reads: the return code of the first query and
\* the two outputs (the second query is made only after a zero return code)
Reading(rc, r, d) ==
    IF rc THEN [rc |-> TRUE, ready |-> r, desired |-> d] ELSE NoPoll

\* the readings the cluster can give: the first query can fail at any time,
\* and does when there is no deployment
Readings(c) ==
    { Reading(FALSE, <<>>, <<>>) } \cup
    IF HasDeployment(c)
       THEN { Reading(TRUE, r, d) : r \in ReadyOutputs(c), d \in DesiredOutputs(c) }
       ELSE {}

\* the reading shows as many ready replicas as desired, and at least one
ReadsEqual(p) ==
    /\ p.rc
    /\ p.ready # <<>> /\ p.desired # <<>>
    /\ p.ready[1] = p.desired[1] /\ p.ready[1] >= 1

\* one iteration of the loop of wait_for_deployment: the two status
\* queries, the test, the periodic pod sample, the sleep
PollIteration ==
    /\ pc = "wait"
    /\ LoopContinues(elapsed)
    /\ \E p \in Readings(cluster), lat \in 0..MaxLatency :
          /\ sawEqual' = (sawEqual \/ ReadsEqual(p))
          /\ IF PollSaysReady(p)
                THEN /\ waitResult' = "ready"
                     /\ obs' = p
                     /\ pc' = "waited"
                     /\ elapsed' = 0
                     /\ UNCHANGED seenErrors
                ELSE /\ IF SampleDue(elapsed + lat)
                           THEN \E q \in PodQueryOutcomes :
                                   seenErrors' = (seenErrors \/ (q = "ok" /\ SomePodInError(cluster)))
                           ELSE UNCHANGED seenErrors
                     /\ elapsed' = AfterSleep(elapsed, lat)
                     /\ UNCHANGED <<waitResult, pc, obs>>
    /\ UNCHANGED <<appName, idx, applied, attempted, warnings, cluster, touched,
                   nsDeleted, podQuery, report, url>>
    /\ UNCHANGED <<sanitizeVars, handlerVars, parseVars, callVars>>

\* an iteration, the time of its sample left aside
Poll == PollIteration /\ UNCHANGED sampleVars

\* an iteration, the time of its sample kept: an iteration that goes on to
\* sleep read the clock for the sample test PollInterval before the next
\* loop test
PollSampled ==
    /\ PollIteration
    /\ lastSample' = IF pc' # "wait" THEN 0
                     ELSE IF SampleDue(elapsed' - PollInterval)
                             THEN elapsed' - PollInterval
                             ELSE lastSample

\* the loop test fails: the final error check, then "return False"
WaitTimeout ==
    /\ pc = "wait"
    /\ ~LoopContinues(elapsed)
    /\ \E q \in PodQueryOutcomes :
          seenErrors' = (seenErrors \/ (q = "ok" /\ SomePodInError(cluster)))
    /\ waitResult' = "timeout"
    /\ pc' = "waited"
    /\ elapsed' = 0
    /\ UNCHANGED <<appName, idx, applied, attempted, warnings, cluster, touched,
                   nsDeleted, obs, sawEqual, podQuery, report, url>>
    /\ UNCHANGED otherVars

\* the exception raised when the deployment did not become ready:
\* get_pod_errors once more, then "kubectl describe deployment"
TimeoutReport(c, q) ==
    [kind |-> "timeout", resource |-> "", diagnostics |-> get_pod_errors(c, q), dump |-> TRUE]

\* "if not deployment_ready: ... raise", else return the URL
Finish ==
    /\ pc = "waited"
    /\ IF waitResult = "ready"
          THEN /\ pc' = "done"
               /\ url' = UrlOf(appName)
               /\ UNCHANGED <<report, podQuery, cluster>>
          ELSE \E q \in PodQueryOutcomes :
               /\ podQuery' = q
               /\ report' = TimeoutReport(cluster, q)
               /\ pc' = "failed"
               /\ cluster' = OnFailure(cluster)
               /\ UNCHANGED url
    /\ UNCHANGED <<appName, idx, applied, attempted, warnings, touched, nsDeleted,
                   elapsed, waitResult, obs, sawEqual, seenErrors>>
    /\ UNCHANGED otherVars

\* ------------------------------------------------------------------------
\* Lifecycle operations (deploy_to_kub.py:568-604), called by other
\* callers at any time
\* ------------------------------------------------------------------------

\* delete_app: "kubectl delete namespace", check=False
DeleteApp ==
    /\ touched' = touched \cup {NamespaceOf(appName)}
    /\ cluster' = EmptyCluster
    /\ nsDeleted' = (nsDeleted \/ "namespace" \in cluster.res)
    /\ UNCHANGED <<appName, pc, idx, applied, attempted, warnings, elapsed, waitResult,
                   obs, sawEqual, seenErrors, podQuery, report, url>>
    /\ UNCHANGED otherVars

\* get_app_status: "kubectl get all -n namespace"
GetAppStatus ==
    /\ touched' = touched \cup {NamespaceOf(appName)}
    /\ UNCHANGED <<appName, pc, idx, applied, attempted, warnings, cluster, nsDeleted,
                   elapsed, waitResult, obs, sawEqual, seenErrors, podQuery, report, url>>
    /\ UNCHANGED otherVars

\* scale_app: "kubectl scale deployment --replicas=n", check=True; with no
\* such deployment the command fails and CalledProcessError reaches the caller
ScaleApp ==
    /\ \E n \in 0..MaxScale :
          cluster' = IF HasDeployment(cluster) THEN [cluster EXCEPT !.desired = n]
                     ELSE cluster
    /\ touched' = touched \cup {NamespaceOf(appName)}
    /\ UNCHANGED <<appName, pc, idx, applied, attempted, warnings, nsDeleted,
                   elapsed, waitResult, obs, sawEqual, seenErrors, podQuery, report, url>>
    /\ UNCHANGED otherVars

\* The deployment controller: status.readyReplicas follows the pods;
\* replicas become ready only up to spec.replicas, and stay ready for a
\* while after a scale-down.
ReadyChange ==
    /\ HasDeployment(cluster)
    /\ \E r \in 0..Replicas :
          /\ r <= cluster.ready \/ r <= cluster.desired
          /\ cluster' = [cluster EXCEPT !.ready = r]
    /\ UNCHANGED <<appName, pc, idx, applied, attempted, warnings, touched, nsDeleted,
                   elapsed, waitResult, obs, sawEqual, seenErrors, podQuery, report, url>>
    /\ UNCHANGED otherVars

\* The pods of the deployment come and go and change state.
PodsChange ==
    /\ HasDeployment(cluster)
    /\ \E p \in PodLists : cluster' = [cluster EXCEPT !.pods = p]
    /\ UNCHANGED <<appName, pc, idx, applied, attempted, warnings, touched, nsDeleted,
                   elapsed, waitResult, obs, sawEqual, seenErrors, podQuery, report, url>>
    /\ UNCHANGED otherVars

\* ------------------------------------------------------------------------
\* Specification of a deployment and the lifecycle operations around it
\* ------------------------------------------------------------------------

SanitizeIdle ==
    /\ sIn = <<>> /\ sOut = <<>> /\ sAgain = <<>> /\ spc = "off"

\* no request is being served, nothing is registered or deployed
HandlerIdle ==
    /\ req = <<>>
    /\ apps_data = <<>>
    /\ dataFile = <<>>
    /\ k8s = {}
    /\ tmpFiles = <<>>

ParseIdle ==
    /\ eIn = <<>> /\ eOut = <<>> /\ epc = "off"

\* no delete_app or list_all_apps call was made
NoCall == [op |-> "none", arg |-> <<>>, raised |-> FALSE, result |-> {}]

CallIdle ==
    /\ lastCall = NoCall

\* no pod sample was taken: the time counts from the start of the wait
SampleIdle ==
    /\ lastSample = 0

Init ==
    /\ appName \in AppNames
    /\ pc = "start"
    /\ idx = 1
    /\ applied = <<>>
    /\ attempted = <<>>
    /\ warnings = <<>>
    /\ cluster = EmptyCluster
    /\ touched = {}
    /\ nsDeleted = FALSE
    /\ elapsed = 0
    /\ waitResult = "none"
    /\ obs = NoPoll
    /\ sawEqual = FALSE
    /\ seenErrors = FALSE
    /\ podQuery = "none"
    /\ report = NoReport
    /\ url = NoUrl
    /\ SanitizeIdle
    /\ HandlerIdle
    /\ ParseIdle
    /\ CallIdle
    /\ SampleIdle

Next ==
    \/ EnsureMinikube
    \/ EnsureIngress
    \/ LoadImage
    \/ Apply
    \/ Poll
    \/ WaitTimeout
    \/ Finish
    \/ DeleteApp
    \/ GetAppStatus
    \/ ScaleApp
    \/ ReadyChange
    \/ PodsChange

Spec == Init /\ [][Next]_vars

\* ------------------------------------------------------------------------
\* Specification of the readiness wait on its own: wait_for_deployment
\* from the state the apply loop leaves when every apply succeeded
\* ------------------------------------------------------------------------

AllResources == [i \in DOMAIN ApplyCommands |-> ApplyCommands[i].name]

InitWait ==
    /\ appName = <<"M","y"," ","A","p","p">>
    /\ pc = "wait"
    /\ idx = Len(ApplyCommands)
    /\ applied = AllResources
    /\ attempted = AllResources
    /\ warnings = <<>>
    /\ cluster = [res |-> ResourceNames, desired |-> Replicas, ready |-> 0, pods |-> <<>>]
    /\ touched = {NamespaceOf(appName)}
    /\ nsDeleted = FALSE
    /\ elapsed = 0
    /\ waitResult = "none"
    /\ obs = NoPoll
    /\ sawEqual = FALSE
    /\ seenErrors = FALSE
    /\ podQuery = "none"
    /\ report = NoReport
    /\ url = NoUrl
    /\ SanitizeIdle
    /\ HandlerIdle
    /\ ParseIdle
    /\ CallIdle
    /\ SampleIdle

WaitStep == Poll \/ WaitTimeout

NextWait ==
    \/ Poll
    \/ WaitTimeout
    \/ ReadyChange
    \/ PodsChange
    \/ ScaleApp
    \/ DeleteApp

\* The waiting call runs on its own thread and every query it makes
\* returns: an iteration of its loop is taken once it can be.
SpecWait == InitWait /\ [][NextWait]_vars /\ WF_vars(WaitStep)

\* ------------------------------------------------------------------------
\* Specification of the readiness wait with the time of its pod samples
\* ------------------------------------------------------------------------

NextSample ==
    \/ PollSampled
    \/ WaitTimeout
    \/ ReadyChange

SpecSample == InitWait /\ [][NextSample]_vars

\* ------------------------------------------------------------------------
\* Specification of sanitize_name on its own
\* ------------------------------------------------------------------------

\* the characters candidate names are drawn from
NameChars == {"a", "B", "-", "_", "7"}

RECURSIVE Pad(_)
Pad(n) == IF n = 0 THEN <<>> ELSE <<"a">> \o Pad(n - 1)

\* lengths of the run of "a" in front of the tail: none, and up to the limit
PadLengths == {0} \cup ((NameLimit - 2) .. NameLimit)

NameInputs == { Pad(n) \o t : n \in PadLengths, t \in SeqsUpTo(NameChars, MaxTail) }

InitSanitize ==
    /\ sIn \in NameInputs
    /\ sOut = <<>> /\ sAgain = <<>> /\ spc = "in"
    /\ appName = <<>>
    /\ pc = "off"
    /\ idx = 1
    /\ applied = <<>>
    /\ attempted = <<>>
    /\ warnings = <<>>
    /\ cluster = EmptyCluster
    /\ touched = {}
    /\ nsDeleted = FALSE
    /\ elapsed = 0
    /\ waitResult = "none"
    /\ obs = NoPoll
    /\ sawEqual = FALSE
    /\ seenErrors = FALSE
    /\ podQuery = "none"
    /\ report = NoReport
    /\ url = NoUrl
    /\ HandlerIdle
    /\ ParseIdle
    /\ CallIdle
    /\ SampleIdle

SanitizeOnce ==
    /\ spc = "in"
    /\ sOut' = sanitize_name(sIn)
    /\ spc' = "once"
    /\ UNCHANGED <<sIn, sAgain>>
    /\ UNCHANGED <<deployVars, handlerVars, parseVars, callVars, sampleVars>>

SanitizeAgain ==
    /\ spc = "once"
    /\ sAgain' = sanitize_name(sOut)
    /\ spc' = "twice"
    /\ UNCHANGED <<sIn, sOut>>
    /\ UNCHANGED <<deployVars, handlerVars, parseVars, callVars, sampleVars>>

NextSanitize ==
    \/ SanitizeOnce
    \/ SanitizeAgain

SpecSanitize == InitSanitize /\ [][NextSanitize]_vars

\* ------------------------------------------------------------------------
\* Environment parsing (deploy_to_kub.py:57-74, 216-229)
\* ------------------------------------------------------------------------

\* str.lstrip(chars) and str.rstrip(chars)
RECURSIVE LStripChars(_, _)
LStripChars(s, chars) ==
    IF s # <<>> /\ s[1] \in chars THEN LStripChars(Tail(s), chars) ELSE s

RECURSIVE RStripChars(_, _)
RStripChars(s, chars) ==
    IF s # <<>> /\ s[Len(s)] \in chars
       THEN RStripChars(SubSeq(s, 1, Len(s) - 1), chars)
       ELSE s

\* str.strip(chars)
StripChars(s, chars) == RStripChars(LStripChars(s, chars), chars)

\* the white space of the texts the model parses
Whitespace == {" "}

\* str.strip()
Strip(s) == StripChars(s, Whitespace)

\* c in s
Contains(s, c) == \E i \in DOMAIN s : s[i] = c

\* s.startswith(c)
StartsWith(s, c) == s # <<>> /\ s[1] = c

\* s.split(c, 1)[0], for s that contains c
RECURSIVE BeforeFirst(_, _)
BeforeFirst(s, c) ==
    IF s = <<>> \/ s[1] = c THEN <<>> ELSE <<s[1]>> \o BeforeFirst(Tail(s), c)

\* what follows the last c of s
RECURSIVE AfterLast(_, _)
AfterLast(s, c) ==
    IF s = <<>> \/ s[Len(s)] = c THEN <<>>
    ELSE Append(AfterLast(SubSeq(s, 1, Len(s) - 1), c), s[Len(s)])

\* s.split(c, 1)[1], for s that contains c
RECURSIVE AfterFirst(_, _)
AfterFirst(s, c) ==
    IF s = <<>> THEN <<>>
    ELSE IF s[1] = c THEN Tail(s)
    ELSE AfterFirst(Tail(s), c)

\* the body of the loop over the lines: the entries one line appends
EnvEntry(rawLine) ==
    LET line == Strip(rawLine)
    IN  IF line # <<>> /\ Contains(line, "=") /\ ~StartsWith(line, "#")
           THEN LET key == Strip(BeforeFirst(line, "="))
                    value == StripChars(StripChars(Strip(AfterFirst(line, "=")), {"\""}), {"'"})
                IN  IF key # <<>> /\ value # <<>>
                       THEN << [name |-> key, value |-> value] >>
                       ELSE <<>>
           ELSE <<>>

\* extract_env_vars: "for line in env_file", and the same loop over
\* env_vars.split('\n') in deploy_to_k8s
RECURSIVE extract_env_vars(_)
extract_env_vars(lines) ==
    IF lines = <<>> THEN <<>>
    ELSE EnvEntry(Head(lines)) \o extract_env_vars(Tail(lines))

\* ------------------------------------------------------------------------
\* build_docker_image (build_docker_image.py:102-161)
\* ------------------------------------------------------------------------

\* image_tag = f"gitdeploy/{app_name}:latest", of the unsanitized name
ImageTag(app_name) ==
    <<"g","i","t","d","e","p","l","o","y","/">> \o app_name
        \o <<":","l","a","t","e","s","t">>

NoTag == <<>>

\* how "minikube status" of the liveness check can end: the host Running,
\* another state, or the 5 second timeout (any exception gives False)
LivenessOutcomes == {"Running", "Stopped", "timeout"}

\* a liveness check that always answers True
EnsureRunningAlways(live) == TRUE

\* ensure_minikube_running() of build_docker_image.py
EnsureRunning(live) == live = "Running"

\* how "docker build" can end: exit 0, exit non-zero (check=True raises
\* CalledProcessError), the 600 second timeout, or the command not found
BuildOutcomes == {"ok", "nonzero", "timeout", "oserror"}

\* how "minikube image load" can end: exit 0, exit non-zero (check=False),
\* or the 120 second timeout
LoadOutcomes == {"ok", "nonzero", "timeout"}

\* the messages of the exceptions build_docker_image raises
BuildTimedOut == "Docker build timed out after 10 minutes"
BuildFailed == "Docker build failed"
BuildError == "Failed to build Docker image"

\* what a call of build_docker_image comes to: the commands it ran, the
\* tag it returned, the message of the exception it raised
BuildReturn(cmds, tag) == [cmds |-> cmds, tag |-> tag, raised |-> ""]

BuildRaise(cmds, msg) == [cmds |-> cmds, tag |-> NoTag, raised |-> msg]

\* build_docker_image(app_name, app_path), given how its commands end
build_docker_image(app_name, live, built, loaded) ==
    LET minikube_running == EnsureRunning(live)
        tried == <<"minikube status", "docker build">>
    IN  IF built = "timeout" THEN BuildRaise(tried, BuildTimedOut)
        ELSE IF built = "nonzero" THEN BuildRaise(tried, BuildFailed)
        ELSE IF built = "oserror" THEN BuildRaise(tried, BuildError)
        ELSE IF ~minikube_running THEN BuildReturn(tried, ImageTag(app_name))
        ELSE IF loaded = "timeout"
           THEN BuildRaise(Append(tried, "minikube image load"), BuildTimedOut)
        ELSE BuildReturn(Append(tried, "minikube image load"), ImageTag(app_name))

\* ------------------------------------------------------------------------
\* Port resolution (deploy_to_kub.py:45-55, 205-212)
\* ------------------------------------------------------------------------

\* detect_app_type returns one of these; "nextjs" is never detected
AppTypes == {"nodejs", "python", "static", "unknown"}

\* None, for a port
NoPort == -1

\* A Dockerfile is the sequence of its instructions; arg is the number that
\* follows the instruction word, or NoPort when no digits follow it.

DockerfilePlain ==
    << [word |-> "FROM", arg |-> NoPort], [word |-> "CMD", arg |-> NoPort] >>

DockerfileExpose4000 ==
    << [word |-> "FROM", arg |-> NoPort], [word |-> "EXPOSE", arg |-> 4000],
       [word |-> "CMD", arg |-> NoPort] >>

\* "expose" in lower case, after an EXPOSE of a variable
DockerfileExposeLower ==
    << [word |-> "FROM", arg |-> NoPort], [word |-> "EXPOSE", arg |-> NoPort],
       [word |-> "expose", arg |-> 8080] >>

\* the Dockerfiles the generator can write
Dockerfiles == {DockerfilePlain, DockerfileExpose4000, DockerfileExposeLower}

\* re.IGNORECASE on the instruction word
UpperWord(w) == IF w = "expose" THEN "EXPOSE" ELSE w

\* re.search(r'EXPOSE\s+(\d+)', content, re.IGNORECASE): the first match
RECURSIVE extract_port_from_dockerfile(_)
extract_port_from_dockerfile(content) ==
    IF content = <<>> THEN NoPort
    ELSE IF UpperWord(Head(content).word) = "EXPOSE" /\ Head(content).arg # NoPort
       THEN Head(content).arg
    ELSE extract_port_from_dockerfile(Tail(content))

\* port = 3000 if app_type in ["nodejs", "nextjs"] else 8000 if app_type == "python" else 80
DefaultPort(app_type) ==
    IF app_type \in {"nodejs", "nextjs"} THEN 3000
    ELSE IF app_type = "python" THEN 8000
    ELSE 80

\* the value of the app_path argument when the caller leaves it out
NoPath == <<>>

\* the value of the env_vars argument when the caller leaves it out
NoEnvVars == <<>>

\* "env_list = []; if app_path: env_list = extract_env_vars(app_path)
\*  elif env_vars: <the same loop over env_vars.split('\n')>"
ResolveEnv(app_path, env_file, env_vars) ==
    IF app_path # NoPath THEN extract_env_vars(env_file)
    ELSE IF env_vars # NoEnvVars THEN extract_env_vars(env_vars)
    ELSE <<>>

\* "port = None; if app_path: port = extract_port_from_dockerfile(app_path);
\*  if port is None: port = <type default>"
ResolvePort(app_type, app_path, dockerfile) ==
    LET port == IF app_path # NoPath THEN extract_port_from_dockerfile(dockerfile)
                ELSE NoPort
    IN  IF port = NoPort THEN DefaultPort(app_type) ELSE port

\* ------------------------------------------------------------------------
\* Manifests, their files and the cluster's objects
\* (deploy_to_kub.py:281-530)
\* ------------------------------------------------------------------------

\* the suffix "kubectl" objects of each manifest carry after the app name
NameSuffix(kind) ==
    CASE kind = "deployment" -> <<>>
      [] kind = "service"    -> <<"-","s","v","c">>
      [] kind = "ingress"    -> <<"-","i","n","g","r","e","s","s">>
      [] kind = "hpa"        -> <<"-","h","p","a">>
      [] kind = "network"    -> <<"-","n","e","t","w","o","r","k","-","p","o","l","i","c","y">>
      [] kind = "quota"      -> <<"-","q","u","o","t","a">>
      [] kind = "limits"     -> <<"-","l","i","m","i","t","s">>

\* metadata.name of the manifest of a kind, for the app name as given
ObjectName(kind, name) ==
    IF kind = "namespace" THEN NamespaceOf(name)
    ELSE sanitize_name(name) \o NameSuffix(kind)

\* metadata.namespace; the Namespace object itself is cluster-scoped
ObjectNamespace(kind, name) ==
    IF kind = "namespace" THEN <<>> ELSE NamespaceOf(name)

\* the kinds whose manifest text holds the port
KindsWithPort == {"deployment", "service", "network"}

\* the value of the label "managed-by" of the Namespace manifest
ManagedBy == "kubehost"

\* the manifest of a kind as deploy_to_k8s formats it: an object's identity,
\* the label of the Namespace and the values the f-string puts in (image,
\* port, and env_yaml in the container of the Deployment)
Manifest(kind, name, image_tag, port, env_list) ==
    [kind |-> kind,
     name |-> ObjectName(kind, name),
     namespace |-> ObjectNamespace(kind, name),
     managedBy |-> IF kind = "namespace" THEN ManagedBy ELSE "",
     image |-> IF kind = "deployment" THEN image_tag ELSE NoTag,
     port |-> IF kind \in KindsWithPort THEN port ELSE NoPort,
     env |-> IF kind = "deployment" THEN env_list ELSE <<>>]

\* os.path.join(tmp_dir, f"{app_name}-<kind>.yaml"), of the sanitized name
TmpPath(kind, name) == [app |-> sanitize_name(name), file |-> kind]

\* the files written by "for name, (filepath, content) in files.items()"
WrittenFiles(name, image_tag, port, env_list) ==
    [p \in { TmpPath(k, name) : k \in ResourceNames } |->
        Manifest(p.file, name, image_tag, port, env_list)]

\* a file system after files are written over it
WriteOver(fs, files) ==
    [p \in DOMAIN fs \cup DOMAIN files |-> IF p \in DOMAIN files THEN files[p] ELSE fs[p]]

NoFiles == <<>>

\* what identifies an object to the API server
ObjectKey(o) == <<o.kind, o.name, o.namespace>>

\* "kubectl apply" of a manifest that names a fresh object on every run
KubectlApplyCreate(objs, m) == objs \cup {m}

\* "kubectl apply" of a manifest: the object of that kind, name and
\* namespace is created, or updated when it exists
KubectlApply(objs, m) ==
    { o \in objs : ObjectKey(o) # ObjectKey(m) } \cup {m}

\* the Deployment images that applying m replaces by another image
ReplacedImages(objs, m) ==
    { o.image : o \in { x \in objs : ObjectKey(x) = ObjectKey(m)
                                     /\ x.kind = "deployment"
                                     /\ x.image # m.image } }

\* the loop "for resource_name, should_check in apply_commands" from index
\* i on, when the apply at index failAt (0: none) exits non-zero: the
\* objects of the cluster, the resources applied, the manifest texts
\* kubectl read for them, what was replaced and the resource whose failure
\* raised
RECURSIVE ApplyLoop(_, _, _, _, _)
ApplyLoop(st, fs, name, i, failAt) ==
    IF i > Len(ApplyCommands) THEN st
    ELSE LET cmd == ApplyCommands[i]
             m == fs[TmpPath(cmd.name, name)]
         IN  IF i # failAt
                THEN ApplyLoop([st EXCEPT !.objs = KubectlApply(st.objs, m),
                                          !.applied = Append(st.applied, cmd.name),
                                          !.sent = @ \cup {m},
                                          !.replaced = @ \cup ReplacedImages(st.objs, m)],
                               fs, name, i + 1, failAt)
             ELSE IF cmd.check THEN [st EXCEPT !.raised = cmd.name]
             ELSE ApplyLoop(st, fs, name, i + 1, failAt)

\* ------------------------------------------------------------------------
\* The registry file (main.py:20-33, 61-72)
\* ------------------------------------------------------------------------

\* The text of the file is a sequence of tokens: the brackets and commas
\* of the list, and one token per item.
NoItem == [appName |-> <<>>, type |-> "", status |-> "", url |-> <<>>]

Punct(c) == [tok |-> c, val |-> NoItem]

Item(v) == [tok |-> "item", val |-> v]

\* json.dump(apps_data, f): the text of a list
RECURSIVE JsonItems(_)
JsonItems(list) ==
    IF list = <<>> THEN <<>>
    ELSE IF Len(list) = 1 THEN << Item(list[1]) >>
    ELSE << Item(list[1]), Punct(",") >> \o JsonItems(Tail(list))

JsonDump(list) == << Punct("[") >> \o JsonItems(list) \o << Punct("]") >>

\* a write of text at offset 0 of a file that holds old: what lies beyond
\* the text written stays
WriteAtStart(text, old) ==
    IF Len(old) <= Len(text) THEN text
    ELSE text \o SubSeq(old, Len(text) + 1, Len(old))

\* the text is what json.dump writes for some list: json.load accepts it
IsJsonList(text) ==
    /\ Len(text) >= 2
    /\ text[1].tok = "[" /\ text[Len(text)].tok = "]"
    /\ Len(text) = 2 \/ Len(text) % 2 = 1
    /\ \A i \in 2..(Len(text) - 1) :
          IF i % 2 = 0 THEN text[i].tok = "item" ELSE text[i].tok = ","

\* json.load of a text that IsJsonList
JsonLoad(text) == [i \in 1..((Len(text) - 1) \div 2) |-> text[2 * i].val]

\* ------------------------------------------------------------------------
\* The cluster bootstrap (deploy_to_kub.py:18-43)
\* ------------------------------------------------------------------------

\* a command the bootstrap ran and how it ended
Ran(cmd, out) == [cmd |-> cmd, out |-> out]

\* what the commands of the bootstrap can be answered: the host status,
\* the exit of "minikube start", the state of the ingress addon, the exit
\* of "minikube addons enable" and the end of "kubectl wait"
BootAnswers ==
    [status : {"Running", "Stopped"}, start : {"ok", "failed"},
     addons : {"enabled", "disabled"}, enable : {"ok", "failed"},
     wait : {"ready", "timeout"}]

\* the answers of a cluster that runs with its addon enabled, or that
\* cannot be started
SteadyBootAnswers ==
    { w \in BootAnswers : /\ w.addons = "enabled" /\ w.enable = "ok" /\ w.wait = "ready"
                          /\ (w.status = "Running" => w.start = "ok")
                          /\ (w.status = "Stopped" => w.start = "failed") }

\* an ensure_minikube_running whose start runs with check=False
ensure_minikube_running_unchecked(status, start) ==
    IF status = "Running"
       THEN [log |-> << Ran("minikube status", status) >>, raised |-> FALSE]
       ELSE [log |-> << Ran("minikube status", status), Ran("minikube start", start) >>,
             raised |-> FALSE]

\* ensure_minikube_running(): "minikube status", and "minikube start" with
\* check=True when the host is not Running
ensure_minikube_running(status, start) ==
    IF status = "Running"
       THEN [log |-> << Ran("minikube status", status) >>, raised |-> FALSE]
       ELSE [log |-> << Ran("minikube status", status), Ran("minikube start", start) >>,
             raised |-> start # "ok"]

\* ensure_ingress_controller(): "minikube addons list"; when the addon is
\* not enabled, "minikube addons enable ingress" with check=True and then
\* "kubectl wait --timeout=180s" with check=False
ensure_ingress_controller(addons, enable, wait) ==
    IF addons = "enabled"
       THEN [log |-> << Ran("minikube addons list", addons) >>, raised |-> FALSE]
       ELSE IF enable # "ok"
       THEN [log |-> << Ran("minikube addons list", addons),
                        Ran("minikube addons enable ingress", enable) >>,
             raised |-> TRUE]
       ELSE [log |-> << Ran("minikube addons list", addons),
                        Ran("minikube addons enable ingress", enable),
                        Ran("kubectl wait", wait) >>,
             raised |-> FALSE]

\* ------------------------------------------------------------------------
\* The deploy handler (main.py:41-77), one call per request
\* ------------------------------------------------------------------------

NoResponse == [kind |-> "none", message |-> "", detail |-> ""]

\* return {"status": "error", "message": "Failed deployment"}
ErrorResponse == [kind |-> "error", message |-> "Failed deployment", detail |-> ""]

\* RedirectResponse(url="/", status_code=303)
Redirect == [kind |-> "redirect", message |-> "", detail |-> ""]

\* an exception the handler does not catch: the framework answers 500 and
\* the exception's text stays in the server's log
Unhandled == [kind |-> "exception", message |-> "Internal Server Error", detail |-> ""]

NoFailure == [stage |-> "none", message |-> ""]

\* a request as it arrives: the form's appName, what the clone holds
\* (detect_app_type), the Dockerfile the generator writes for it and the
\* lines of the form's envVars;
\* sent keeps the manifests its applies handed to the cluster;
\* live keeps what the liveness check of the build was answered, boot the
\* commands of the bootstrap and how they ended; bootAnswers is what the
\* cluster tools can answer the bootstrap of this request
NewRequest(name, type, dockerfile) ==
    [appName |-> name, appType |-> type, dockerfile |-> dockerfile,
     envVars |-> <<>>, env_list |-> <<>>,
     bootAnswers |-> BootAnswers,
     pc |-> "clone", cmds |-> <<>>, live |-> "", boot |-> <<>>,
     image_tag |-> NoTag, port |-> NoPort,
     applied |-> <<>>, sent |-> {}, replaced |-> {}, url |-> NoUrl, buf |-> <<>>,
     failure |-> NoFailure, response |-> NoResponse]

\* a request made while the cluster is steady
SteadyRequest(name, type, dockerfile) ==
    [NewRequest(name, type, dockerfile) EXCEPT !.bootAnswers = SteadyBootAnswers]

\* deploy_to_k8s(appName, image_tag, app_type): app_path and env_vars are
\* left at their default None
DeployArgs(q) ==
    [app_name |-> q.appName, image_tag |-> q.image_tag, app_type |-> q.appType,
     app_path |-> NoPath, env_vars |-> NoEnvVars]

\* "except subprocess.CalledProcessError: return {...}"
Caught(r, stage) ==
    req' = [req EXCEPT ![r].pc = "end",
                       ![r].failure = [stage |-> stage, message |-> ""],
                       ![r].response = ErrorResponse]

\* any other exception leaves the handler
Escapes(r, stage, msg) ==
    req' = [req EXCEPT ![r].pc = "end",
                       ![r].failure = [stage |-> stage, message |-> msg],
                       ![r].response = Unhandled]

\* app_info = {"appName": ..., "type": ..., "status": "deployed", "url": ...}
AppInfo(q) ==
    [appName |-> q.appName, type |-> q.appType, status |-> "deployed", url |-> q.url]

\* what a step of the handler leaves alone
nonHandlerVars == <<deployVars, sanitizeVars, parseVars, callVars, sampleVars>>

\* shutil.rmtree of an older clone, then "git clone" with check=True
ReqClone(r) ==
    /\ req[r].pc = "clone"
    /\ \E cloned \in BOOLEAN :
          IF cloned
             THEN req' = [req EXCEPT ![r].pc = "generate",
                                     ![r].cmds = Append(@, "git clone")]
             ELSE Caught(r, "clone")
    /\ UNCHANGED <<apps_data, dataFile, k8s, tmpFiles>>
    /\ UNCHANGED nonHandlerVars

\* detect_app_type, the .env file, generate_dockerfile: an unknown type
\* raises Exception("Unknown app type"), and so can the text service
ReqGenerate(r) ==
    /\ req[r].pc = "generate"
    /\ \E generated \in BOOLEAN :
          IF req[r].appType = "unknown" THEN Escapes(r, "generate", "Unknown app type")
          ELSE IF ~generated THEN Escapes(r, "generate", "call_ai")
          ELSE req' = [req EXCEPT ![r].pc = "build"]
    /\ UNCHANGED <<apps_data, dataFile, k8s, tmpFiles>>
    /\ UNCHANGED nonHandlerVars

\* image_tag = build_docker_image(appName, app_path)
ReqBuild(r) ==
    /\ req[r].pc = "build"
    /\ \E live \in LivenessOutcomes, built \in BuildOutcomes, loaded \in LoadOutcomes :
          LET b == build_docker_image(req[r].appName, live, built, loaded)
          IN  IF b.raised # ""
                 THEN req' = [req EXCEPT ![r].pc = "end",
                                         ![r].cmds = @ \o b.cmds,
                                         ![r].live = live,
                                         ![r].failure = [stage |-> "build", message |-> b.raised],
                                         ![r].response = Unhandled]
                 ELSE req' = [req EXCEPT ![r].pc = "bootstrap",
                                         ![r].cmds = @ \o b.cmds,
                                         ![r].live = live,
                                         ![r].image_tag = b.tag]
    /\ UNCHANGED <<apps_data, dataFile, k8s, tmpFiles>>
    /\ UNCHANGED nonHandlerVars

\* deploy_to_k8s up to the bootstrap: the port and the environment of the
\* container (the .env file holds the form's text), then ensure_minikube_running
\* and ensure_ingress_controller; an exception of either is raised again
\* by the "except" of deploy_to_k8s
ReqBootstrap(r) ==
    /\ req[r].pc = "bootstrap"
    /\ LET a == DeployArgs(req[r])
           port == ResolvePort(a.app_type, a.app_path, req[r].dockerfile)
           env_list == ResolveEnv(a.app_path, req[r].envVars, a.env_vars)
       IN  \E w \in req[r].bootAnswers :
              LET m == ensure_minikube_running(w.status, w.start)
                  g == ensure_ingress_controller(w.addons, w.enable, w.wait)
                  raised(log) ==
                      [req EXCEPT ![r].pc = "end",
                                  ![r].boot = log,
                                  ![r].failure = [stage |-> "bootstrap",
                                                  message |-> "Deployment error"],
                                  ![r].response = Unhandled]
              IN  IF m.raised THEN req' = raised(m.log)
                  ELSE IF g.raised THEN req' = raised(m.log \o g.log)
                  ELSE req' = [req EXCEPT ![r].pc = "load",
                                          ![r].port = port,
                                          ![r].env_list = env_list,
                                          ![r].boot = m.log \o g.log,
                                          ![r].cmds = Append(@, "bootstrap")]
    /\ UNCHANGED <<apps_data, dataFile, k8s, tmpFiles>>
    /\ UNCHANGED nonHandlerVars

\* "minikube image load" of deploy_to_k8s: check=False, exceptions caught
ReqLoad(r) ==
    /\ req[r].pc = "load"
    /\ \E loaded \in LoadOutcomes :
          req' = [req EXCEPT ![r].pc = "files",
                             ![r].cmds = Append(@, "minikube image load")]
    /\ UNCHANGED <<apps_data, dataFile, k8s, tmpFiles>>
    /\ UNCHANGED nonHandlerVars

\* the manifests are formatted and written to the temporary directory
ReqWriteFiles(r) ==
    /\ req[r].pc = "files"
    /\ tmpFiles' = WriteOver(tmpFiles,
                       WrittenFiles(req[r].appName, req[r].image_tag, req[r].port,
                                    req[r].env_list))
    /\ req' = [req EXCEPT ![r].pc = "apply"]
    /\ UNCHANGED <<apps_data, dataFile, k8s>>
    /\ UNCHANGED nonHandlerVars

\* the apply loop: each "kubectl apply -f" reads the file as it is then
ReqApply(r) ==
    /\ req[r].pc = "apply"
    /\ \E failAt \in 0..Len(ApplyCommands) :
          LET st == ApplyLoop([objs |-> k8s, applied |-> <<>>, sent |-> {},
                               replaced |-> {}, raised |-> ""],
                              tmpFiles, req[r].appName, 1, failAt)
          IN  /\ k8s' = st.objs
              /\ IF st.raised # ""
                    THEN req' = [req EXCEPT ![r].pc = "end",
                                            ![r].cmds = Append(@, "kubectl apply"),
                                            ![r].applied = st.applied,
                                            ![r].sent = st.sent,
                                            ![r].replaced = st.replaced,
                                            ![r].failure = [stage |-> "apply", message |-> st.raised],
                                            ![r].response = Unhandled]
                    ELSE req' = [req EXCEPT ![r].pc = "wait",
                                            ![r].cmds = Append(@, "kubectl apply"),
                                            ![r].applied = st.applied,
                                            ![r].sent = st.sent,
                                            ![r].replaced = st.replaced]
    /\ UNCHANGED <<apps_data, dataFile, tmpFiles>>
    /\ UNCHANGED nonHandlerVars

\* wait_for_deployment returns True, and deploy_to_k8s the URL, or False,
\* and deploy_to_k8s raises
ReqWait(r) ==
    /\ req[r].pc = "wait"
    /\ \E deployment_ready \in BOOLEAN :
          IF deployment_ready
             THEN req' = [req EXCEPT ![r].pc = "append", ![r].url = UrlOf(req[r].appName)]
             ELSE Escapes(r, "timeout", "Deployment error")
    /\ UNCHANGED <<apps_data, dataFile, k8s, tmpFiles>>
    /\ UNCHANGED nonHandlerVars

\* apps_data.append(app_info)
ReqAppend(r) ==
    /\ req[r].pc = "append"
    /\ apps_data' = Append(apps_data, AppInfo(req[r]))
    /\ req' = [req EXCEPT ![r].pc = "open"]
    /\ UNCHANGED <<dataFile, k8s, tmpFiles>>
    /\ UNCHANGED nonHandlerVars

\* open(DATA_FILE, "w"): the file is truncated
ReqOpen(r) ==
    /\ req[r].pc = "open"
    /\ dataFile' = <<>>
    /\ req' = [req EXCEPT ![r].pc = "dump"]
    /\ UNCHANGED <<apps_data, k8s, tmpFiles>>
    /\ UNCHANGED nonHandlerVars

\* json.dump(apps_data, f, indent=2): the text goes to the buffer of f
ReqDump(r) ==
    /\ req[r].pc = "dump"
    /\ req' = [req EXCEPT ![r].pc = "close", ![r].buf = JsonDump(apps_data)]
    /\ UNCHANGED <<apps_data, dataFile, k8s, tmpFiles>>
    /\ UNCHANGED nonHandlerVars

\* the end of the "with" block flushes the buffer at the start of the
\* file and closes it; return RedirectResponse
ReqClose(r) ==
    /\ req[r].pc = "close"
    /\ dataFile' = WriteAtStart(req[r].buf, dataFile)
    /\ req' = [req EXCEPT ![r].pc = "end", ![r].buf = <<>>, ![r].response = Redirect]
    /\ UNCHANGED <<apps_data, k8s, tmpFiles>>
    /\ UNCHANGED nonHandlerVars

\* ------------------------------------------------------------------------
\* Specifications of the deploy handler: one request, and two requests
\* served at the same time by two threads of the server
\* ------------------------------------------------------------------------

\* the app names requests are made with: "my_app", "my-app" and "b"
NameUnderscore == <<"m","y","_","a","p","p">>
NameHyphen == <<"m","y","-","a","p","p">>
NameOther == <<"b">>

RequestNames == {NameUnderscore, NameHyphen, NameOther}

\* no deploy_to_k8s call of the step-by-step model is running
DeployIdle ==
    /\ appName = <<>>
    /\ pc = "off"
    /\ idx = 1
    /\ applied = <<>>
    /\ attempted = <<>>
    /\ warnings = <<>>
    /\ cluster = EmptyCluster
    /\ touched = {}
    /\ nsDeleted = FALSE
    /\ elapsed = 0
    /\ waitResult = "none"
    /\ obs = NoPoll
    /\ sawEqual = FALSE
    /\ seenErrors = FALSE
    /\ podQuery = "none"
    /\ report = NoReport
    /\ url = NoUrl

\* the server after start-up with no apps.json: apps_data = []
ServerStarted ==
    /\ apps_data = <<>>
    /\ dataFile = <<>>
    /\ k8s = {}
    /\ tmpFiles = NoFiles

\* the envVars a request is made with: none, or two assignments with a
\* comment between them
EnvForms ==
    { <<>>,
      << <<"A", "=", "1">>, <<"#", "x">>, <<"B", "=", "\"", "2", "\"">> >> }

InitRequest ==
    /\ \E n \in RequestNames, t \in AppTypes, d \in Dockerfiles, e \in EnvForms :
          req = << [NewRequest(n, t, d) EXCEPT !.envVars = e] >>
    /\ ServerStarted
    /\ DeployIdle /\ SanitizeIdle /\ ParseIdle /\ CallIdle /\ SampleIdle

InitConcurrent ==
    /\ \E n \in RequestNames :
          req = << SteadyRequest(NameUnderscore, "python", DockerfilePlain),
                   SteadyRequest(n, "python", DockerfilePlain) >>
    /\ ServerStarted
    /\ DeployIdle /\ SanitizeIdle /\ ParseIdle /\ CallIdle /\ SampleIdle

NextHandler ==
    \/ \E r \in DOMAIN req : ReqClone(r)
    \/ \E r \in DOMAIN req : ReqGenerate(r)
    \/ \E r \in DOMAIN req : ReqBuild(r)
    \/ \E r \in DOMAIN req : ReqBootstrap(r)
    \/ \E r \in DOMAIN req : ReqLoad(r)
    \/ \E r \in DOMAIN req : ReqWriteFiles(r)
    \/ \E r \in DOMAIN req : ReqApply(r)
    \/ \E r \in DOMAIN req : ReqWait(r)
    \/ \E r \in DOMAIN req : ReqAppend(r)
    \/ \E r \in DOMAIN req : ReqOpen(r)
    \/ \E r \in DOMAIN req : ReqDump(r)
    \/ \E r \in DOMAIN req : ReqClose(r)

SpecRequest == InitRequest /\ [][NextHandler]_vars

SpecConcurrent == InitConcurrent /\ [][NextHandler]_vars

\* ------------------------------------------------------------------------
\* delete_app and list_all_apps on the objects of the cluster
\* (deploy_to_kub.py:568-572, 587-594)
\* ------------------------------------------------------------------------

\* a namespace of the cluster that no deployment made: it has no label
SystemNamespace ==
    [kind |-> "namespace", name |-> <<"d","e","f","a","u","l","t">>,
     namespace |-> <<>>, managedBy |-> "", image |-> NoTag, port |-> NoPort,
     env |-> <<>>]

\* a delete that removes the Namespace object and leaves what it holds
KubectlDeleteNamespaceOnly(objs, ns) ==
    { o \in objs : ~(o.kind = "namespace" /\ o.name = ns) }

\* "kubectl delete namespace ns": the Namespace object goes, and with it
\* every object of that namespace; nothing changes when it does not exist
KubectlDeleteNamespace(objs, ns) ==
    { o \in objs : ~(o.kind = "namespace" /\ o.name = ns) /\ o.namespace # ns }

\* delete_app(app_name): the command runs with check=False, its exit code
\* is not looked at
CallDeleteApp(n) ==
    /\ k8s' = KubectlDeleteNamespace(k8s, NamespaceOf(n))
    /\ lastCall' = [op |-> "delete_app", arg |-> n, raised |-> FALSE, result |-> {}]
    /\ UNCHANGED <<req, apps_data, dataFile, tmpFiles>>
    /\ UNCHANGED <<deployVars, sanitizeVars, parseVars, sampleVars>>

\* "kubectl get namespaces -l managed-by=kubehost -o name": one line
\* "namespace/<name>" for every Namespace that carries the label
NamespacePrefix == <<"n","a","m","e","s","p","a","c","e","/">>

KubectlGetNamespaces(objs) ==
    { NamespacePrefix \o o.name : o \in { x \in objs : x.kind = "namespace"
                                                        /\ x.managedBy = ManagedBy } }

\* ns.replace('namespace/app-', ''): a namespace name holds no "/", so the
\* text can only occur at the start of the line
ListedPrefix == NamespacePrefix \o <<"a","p","p","-">>

RemoveListedPrefix(line) ==
    IF Len(line) >= Len(ListedPrefix) /\ SubSeq(line, 1, Len(ListedPrefix)) = ListedPrefix
       THEN SubSeq(line, Len(ListedPrefix) + 1, Len(line))
       ELSE line

\* list_all_apps(): the names returned
list_all_apps(objs) == { RemoveListedPrefix(line) : line \in KubectlGetNamespaces(objs) }

CallListAllApps ==
    /\ lastCall' = [op |-> "list_all_apps", arg |-> <<>>, raised |-> FALSE,
                    result |-> list_all_apps(k8s)]
    /\ UNCHANGED <<req, apps_data, dataFile, k8s, tmpFiles>>
    /\ UNCHANGED <<deployVars, sanitizeVars, parseVars, sampleVars>>

\* one deployment request, and delete_app and list_all_apps calls made at
\* any time, on a cluster that has a namespace of its own
InitLifecycle ==
    /\ \E n \in RequestNames :
          req = << SteadyRequest(n, "python", DockerfilePlain) >>
    /\ apps_data = <<>>
    /\ dataFile = <<>>
    /\ k8s = {SystemNamespace}
    /\ tmpFiles = NoFiles
    /\ DeployIdle /\ SanitizeIdle /\ ParseIdle /\ CallIdle /\ SampleIdle

NextLifecycle ==
    \/ \E r \in DOMAIN req : ReqClone(r)
    \/ \E r \in DOMAIN req : ReqGenerate(r)
    \/ \E r \in DOMAIN req : ReqBuild(r)
    \/ \E r \in DOMAIN req : ReqBootstrap(r)
    \/ \E r \in DOMAIN req : ReqLoad(r)
    \/ \E r \in DOMAIN req : ReqWriteFiles(r)
    \/ \E r \in DOMAIN req : ReqApply(r)
    \/ \E r \in DOMAIN req : ReqWait(r)
    \/ \E r \in DOMAIN req : ReqAppend(r)
    \/ \E r \in DOMAIN req : ReqOpen(r)
    \/ \E r \in DOMAIN req : ReqDump(r)
    \/ \E r \in DOMAIN req : ReqClose(r)
    \/ \E n \in RequestNames : CallDeleteApp(n)
    \/ CallListAllApps

SpecLifecycle == InitLifecycle /\ [][NextLifecycle]_vars

\* ------------------------------------------------------------------------
\* Specification of the environment parsing on its own
\* ------------------------------------------------------------------------

\* the characters the lines of a .env text are drawn from
EnvChars == {"a", "=", " ", "#", "\"", "'"}

\* what a line starts with, before its tail of up to MaxEnvTail characters
EnvPrefixes == { <<>>, <<"a">>, <<"a", "=">> }

EnvLines == { p \o t : p \in EnvPrefixes, t \in SeqsUpTo(EnvChars, MaxEnvTail) }

\* the lines that can follow the first line of a text
EnvSecondLines == { <<"b", "=", "1">>, <<"#", "c">>, <<>> }

\* the texts parsed: one line, or one line followed by a second
EnvTexts == { <<l>> : l \in EnvLines } \cup { <<l, m>> : l \in EnvLines, m \in EnvSecondLines }

InitParse ==
    /\ eIn \in EnvTexts
    /\ eOut = <<>>
    /\ epc = "in"
    /\ DeployIdle /\ SanitizeIdle /\ HandlerIdle /\ CallIdle /\ SampleIdle

ParseEnv ==
    /\ epc = "in"
    /\ eOut' = extract_env_vars(eIn)
    /\ epc' = "parsed"
    /\ UNCHANGED eIn
    /\ UNCHANGED <<deployVars, sanitizeVars, handlerVars, callVars, sampleVars>>

NextParse == ParseEnv

SpecParse == InitParse /\ [][NextParse]_vars

\* ------------------------------------------------------------------------
\* Properties
\* ------------------------------------------------------------------------

\* the set of a sequence's elements
Range(q) == { q[i] : i \in DOMAIN q }

\* the apply groups of the manifest ordering invariant
GroupOf(r) ==
    CASE r = "namespace" -> 1
      [] r \in {"quota", "limits"} -> 2
      [] r \in {"deployment", "service", "ingress"} -> 3
      [] r \in {"hpa", "network"} -> 4

InGroupOrder(q) ==
    \A i, j \in DOMAIN q : i < j => (GroupOf(q[i]) <= GroupOf(q[j]) /\ q[i] # q[j])

\* C1: in every execution of deploy_to_k8s, whatever prefix of the manifests
\* gets applied, the sequence of applies runs through the groups in order:
\* namespace, then quota and limits, then deployment, service and ingress,
\* then hpa and network-policy; no resource is applied before one of an
\* earlier group, and none twice.
C1_ApplyOrderFixed ==
    /\ InGroupOrder(attempted)
    /\ InGroupOrder(applied)
    /\ attempted # <<>> => attempted[1] = "namespace"

\* C1 witness: a call that ran all eight applies
C1_Witness_AllAttempted == Len(attempted) = 8 /\ Len(applied) >= 7

\* the resources whose apply failure must abort the call
MustSucceed == {"namespace", "quota", "limits", "deployment", "service", "ingress", "network"}

\* C2: a failed apply of namespace, quota, limits, deployment, service,
\* ingress or network-policy aborts deploy_to_k8s at once: it is the last
\* apply of the call, the readiness wait is never started and the call fails
\* with no URL; a failed apply of hpa alone is only logged, and the loop
\* goes on to apply network-policy.
C2_AbortOnRequiredFailure ==
    /\ \A i \in DOMAIN attempted :
          (attempted[i] \in MustSucceed /\ attempted[i] \notin Range(applied)) =>
              /\ i = Len(attempted)
              /\ pc = "failed"
              /\ report.kind = "apply" /\ report.resource = attempted[i]
              /\ waitResult = "none" /\ elapsed = 0 /\ url = NoUrl
    /\ report.kind = "apply" =>
          /\ report.resource \in MustSucceed
          /\ attempted # <<>> /\ attempted[Len(attempted)] = report.resource
    /\ ("hpa" \in Range(attempted) /\ "hpa" \notin Range(applied)) =>
          /\ "hpa" \in Range(warnings)
          /\ report.resource # "hpa"
          /\ "network" \in Range(attempted) \/ (pc = "apply" /\ ApplyCommands[idx].name = "network")

\* C2 witness: the hpa apply failed, network-policy was applied after it
\* and the deployment ended ready
C2_Witness_HpaIgnored ==
    /\ "hpa" \in Range(warnings)
    /\ "network" \in Range(applied)
    /\ pc = "done" /\ url # NoUrl

\* C3 as stated: the success URL is returned only after all required
\* resources were applied and a poll read ready >= desired with desired >= 1.
C3_SuccessOnlyIfDesiredAtLeastOne ==
    url # NoUrl =>
        /\ url = UrlOf(appName)
        /\ MustSucceed \subseteq Range(applied)
        /\ obs.rc /\ obs.ready # <<>> /\ obs.desired # <<>>
        /\ obs.ready[1] >= obs.desired[1]
        /\ obs.desired[1] >= 1

\* C3 amended: the success URL http://<sanitizedName>.localhost is returned
\* only after all required resources were applied and a poll read
\* ready >= desired with ready >= 1 (desired itself may be 0): no deployment
\* is reported ready on zero ready replicas.
C3_SuccessOnlyIfReadyAtLeastOne ==
    url # NoUrl =>
        /\ url = UrlOf(appName)
        /\ pc = "done" /\ waitResult = "ready"
        /\ MustSucceed \subseteq Range(applied)
        /\ obs.rc /\ obs.ready # <<>> /\ obs.desired # <<>>
        /\ obs.ready[1] >= obs.desired[1]
        /\ obs.ready[1] >= 1

\* C3 witness: a call that returned the URL
C3_Witness_Success == url # NoUrl /\ pc = "done" /\ obs.rc

\* C4: the readiness wait always terminates, whatever each poll reads
\* (query error, empty counts, fewer ready than desired): a wait that is
\* running always comes to return, ready or not-ready on the timeout.
C4_WaitTerminates == (pc = "wait") ~> (pc = "waited" /\ waitResult \in {"ready", "timeout"})

\* C4 witness: a wait that returned not-ready on the timeout without any
\* poll having read as many ready replicas as desired
C4_Witness_TimedOut == waitResult = "timeout" /\ pc = "waited" /\ ~sawEqual

\* C5: if some poll before the timeout reads readyReplicas = spec.replicas
\* >= 1, the wait returns ready at that poll, and deploy_to_k8s then returns
\* the URL and raises nothing: no failure report, no diagnostics.
C5_ReadyReportedAtPoll ==
    sawEqual =>
        /\ waitResult = "ready"
        /\ pc \in {"waited", "done"}
        /\ obs.ready = obs.desired
        /\ report = NoReport
        /\ pc = "done" => url = UrlOf(appName)

\* C5 witness: a poll read equal counts and the call returned the URL
C5_Witness_EqualThenSuccess ==
    /\ sawEqual /\ pc = "done" /\ url # NoUrl
    /\ obs.ready = <<Replicas>> /\ obs.desired = <<Replicas>>

C7_NoCleanupOnFailure ==
    (pc = "failed" /\ ~nsDeleted) => Range(applied) \subseteq cluster.res

\* C7 witness: a call that failed after applying some resources, with no
\* delete_app
C7_Witness_PartialStateLeft ==
    /\ pc = "failed" /\ ~nsDeleted
    /\ report.kind = "apply" /\ report.resource = "service"
    /\ "deployment" \in cluster.res

\* C8: sanitize_name is idempotent, also on inputs longer than 63
\* characters whose 63rd sanitized character is '-'.
C8_SanitizeIdempotent == spc = "twice" => sAgain = sOut

\* the ASCII letters and digits of a name
IsAlnum(c) == c \in LowerLetters \cup Digits \cup {"A", "B", "M"}

\* no two '-' in a row
NoDoubleHyphen(s) == \A i \in 1..(Len(s) - 1) : ~(s[i] = "-" /\ s[i + 1] = "-")

\* C9: for every input with at least one alphanumeric character,
\* sanitize_name returns a non-empty string over [a-z0-9-] of length at
\* most 63 with no leading '-', no trailing '-' and no "--".
C9_SanitizeWellFormed ==
    (spc # "in" /\ \E i \in DOMAIN sIn : IsAlnum(sIn[i])) =>
        /\ sOut # <<>>
        /\ Range(sOut) \subseteq AllowedChars
        /\ Len(sOut) <= NameLimit
        /\ sOut[1] # "-"
        /\ sOut[Len(sOut)] # "-"
        /\ NoDoubleHyphen(sOut)

\* C10: when the sanitized app name is empty, no operation (deploy, delete,
\* status, scale) issues a cluster command against the namespace "app-".
C10_EmptyNameNeverUsed ==
    sanitize_name(appName) = <<>> => NamespaceOf(appName) \notin touched

\* C11: two deployments whose app names differ but sanitize to the same
\* identifier never silently overwrite one another: a request that ends
\* with the success answer has replaced no Deployment that was applied
\* under another app name.
C11_NoSilentOverwrite ==
    \A r \in DOMAIN req :
        req[r].response.kind = "redirect" => req[r].replaced = {}

\* C12: the image build tries its strategies in order: when the host
\* "docker build" fails, the cluster tool's "minikube image build" is
\* attempted, and build_docker_image raises only after that has failed too.
C12_BuildFallsBack ==
    \A r \in DOMAIN req :
        req[r].failure.stage = "build" =>
            "minikube image build" \in Range(req[r].cmds)

\* C13: a failure of the image load is never fatal to the build: once
\* "minikube image load" has been run (the host build succeeded before it),
\* build_docker_image returns the image tag, however the load ended.
C13_LoadFailureNotFatal ==
    \A r \in DOMAIN req :
        "minikube image load" \in Range(req[r].cmds) =>
            /\ req[r].failure.stage # "build"
            /\ req[r].image_tag = ImageTag(req[r].appName)

\* the positions of a command in the commands a request ran
Positions(cmds, c) == { i \in DOMAIN cmds : cmds[i] = c }

\* the load was run by build_docker_image: before any step of deploy_to_k8s
LoadedAtBuild(q) ==
    \E i \in Positions(q.cmds, "minikube image load") :
        \A j \in Positions(q.cmds, "bootstrap") : i < j

\* the load was run by deploy_to_k8s after the bootstrap and before the
\* manifests were applied
LoadedAtDeploy(q) ==
    \E i \in Positions(q.cmds, "bootstrap"), j \in Positions(q.cmds, "minikube image load") :
        /\ i < j
        /\ \A k \in Positions(q.cmds, "kubectl apply") : j < k

\* C14: build_docker_image runs the load step exactly if the liveness check
\* made before the build answered Running (and the host build succeeded, so
\* that the step is reached); when the cluster is not running the build
\* skips the load, and deploy_to_k8s runs it after the cluster bootstrap and
\* before the Deployment manifest is applied.
C14_LoadIffClusterRunning ==
    \A r \in DOMAIN req :
        LET q == req[r]
        IN  /\ LoadedAtBuild(q) => q.live = "Running"
            /\ q.image_tag # NoTag => (LoadedAtBuild(q) <=> q.live = "Running")
            /\ "deployment" \in Range(q.applied) => LoadedAtDeploy(q)
            /\ "kubectl apply" \in Range(q.cmds) => LoadedAtDeploy(q)

\* C14 witness: the liveness check did not answer Running, the build
\* returned the tag without a load, and deploy_to_k8s loaded the image
\* before it applied the Deployment
C14_Witness_LoadDeferred ==
    \E r \in DOMAIN req :
        /\ req[r].live = "Stopped"
        /\ req[r].image_tag # NoTag
        /\ ~LoadedAtBuild(req[r])
        /\ LoadedAtDeploy(req[r])
        /\ "deployment" \in Range(req[r].applied)

\* the port the claim gives a request: the EXPOSE port of its Dockerfile
\* when it has one, else the default of its type
ExpectedPort(q) ==
    IF \E i \in DOMAIN q.dockerfile :
          UpperWord(q.dockerfile[i].word) = "EXPOSE" /\ q.dockerfile[i].arg # NoPort
       THEN extract_port_from_dockerfile(q.dockerfile)
       ELSE CASE q.appType \in {"nodejs", "nextjs"} -> 3000
              [] q.appType = "python" -> 8000
              [] OTHER -> 80

\* C15: for every deployment, the container port in the manifests is the
\* port of the EXPOSE directive of the built Dockerfile when it has one,
\* whatever the app type, and the type default (nodejs/nextjs 3000, python
\* 8000, static or other 80) only when there is none.
C15_PortFromExpose ==
    \A r \in DOMAIN req :
        \A k \in KindsWithPort :
            TmpPath(k, req[r].appName) \in DOMAIN tmpFiles =>
                tmpFiles[TmpPath(k, req[r].appName)].port = ExpectedPort(req[r])

\* s without the characters of chars at its two ends
Trimmed(s, chars) ==
    LET keep == { i \in DOMAIN s : s[i] \notin chars }
    IN  IF keep = {} THEN <<>>
        ELSE SubSeq(s, CHOOSE i \in keep : \A j \in keep : i <= j,
                       CHOOSE i \in keep : \A j \in keep : j <= i)

\* the position of the first '=' of a line that has one
FirstEquals(s) ==
    CHOOSE i \in DOMAIN s : s[i] = "=" /\ \A j \in 1..(i - 1) : s[j] # "="

\* the key of a line: what is in front of its first '=', trimmed
KeyOf(s) == Trimmed(SubSeq(s, 1, FirstEquals(s) - 1), {" "})

\* the value of a line: what follows its first '=', trimmed, and then
\* trimmed of surrounding double and single quotes
ValueOf(s) ==
    Trimmed(Trimmed(Trimmed(SubSeq(s, FirstEquals(s) + 1, Len(s)), {" "}), {"\""}), {"'"})

\* a line that yields a pair: not blank, no '#' comment, with an '=', a
\* non-empty key and a non-empty value
YieldsPair(rawLine) ==
    LET s == Trimmed(rawLine, {" "})
    IN  /\ s # <<>>
        /\ s[1] # "#"
        /\ \E i \in DOMAIN s : s[i] = "="
        /\ KeyOf(s) # <<>>
        /\ ValueOf(s) # <<>>

\* the pairs of the lines that yield one, in the order of the lines
ExpectedPairs(lines) ==
    LET kept == { i \in DOMAIN lines : YieldsPair(lines[i]) }
        nth(k) == CHOOSE i \in kept : Cardinality({ j \in kept : j < i }) = k - 1
    IN  [k \in 1..Cardinality(kept) |->
            [name |-> KeyOf(Trimmed(lines[nth(k)], {" "})),
             value |-> ValueOf(Trimmed(lines[nth(k)], {" "}))]]

\* C16: environment parsing returns exactly, and in input order, the
\* (key, value) pairs of the lines that are not blank, do not start with
\* '#', contain '=' and have a non-empty trimmed key and a non-empty value
\* after trimming surrounding quotes; every other line is skipped.
C16_EnvParsingExact ==
    epc = "parsed" => eOut = ExpectedPairs(eIn)

\* C16 witness: a text of two lines, the first with a value in double
\* quotes and two '=', parsed into two pairs
C16_Witness_TwoPairs ==
    /\ epc = "parsed"
    /\ eIn = << <<"a", "=", "\"", "a", "=", "\"">>, <<"b", "=", "1">> >>
    /\ eOut = << [name |-> <<"a">>, value |-> <<"a", "=">>],
                 [name |-> <<"b">>, value |-> <<"1">>] >>

\* the records apps.json holds, none when it is not a JSON list
Persisted == IF IsJsonList(dataFile) THEN Range(JsonLoad(dataFile)) ELSE {}

\* C17: every deployment request that reached a terminal outcome has left
\* a persisted record of its app that carries the outcome: "deployed" when
\* it ended ready, "failed" when the clone, the build, the bootstrap, an
\* apply or the rollout failed.
C17_TerminalOutcomeRecorded ==
    \A r \in DOMAIN req :
        req[r].pc = "end" =>
            \E rec \in Persisted :
                /\ rec.appName = req[r].appName
                /\ rec.status = IF req[r].failure = NoFailure THEN "deployed" ELSE "failed"

\* C18: every deployment request that failed in the build, the cluster
\* bootstrap, a required apply or the rollout wait ends with a failure
\* report returned to the caller by the handler (a message with the
\* underlying tool output or diagnostics); no such failure leaves the
\* handler as an exception.
C18_FailureReportReturned ==
    \A r \in DOMAIN req :
        (req[r].pc = "end" /\ req[r].failure.stage \in {"build", "bootstrap", "apply", "timeout"}) =>
            /\ req[r].response.kind = "error"
            /\ req[r].response.message # ""
            /\ req[r].response.detail # ""

\* the requests being served have app names that differ also once sanitized
NamesDistinct ==
    \A r1, r2 \in DOMAIN req :
        r1 # r2 => sanitize_name(req[r1].appName) # sanitize_name(req[r2].appName)

\* C19: concurrent deployment requests for distinct app names are
\* independent: under every interleaving, once both have ended, each
\* successful request's cluster objects and manifest files are its own, as
\* after a run on its own, apps.json is a well-formed list and holds the
\* record of every successful request: none is lost or corrupted.
C19_ConcurrentRequestsIndependent ==
    (NamesDistinct /\ \A r \in DOMAIN req : req[r].pc = "end") =>
        /\ dataFile = <<>> \/ IsJsonList(dataFile)
        /\ \A r \in DOMAIN req :
              req[r].response.kind = "redirect" =>
                  LET q == req[r]
                  IN  /\ AppInfo(q) \in Persisted
                      /\ \A k \in Range(q.applied) :
                            Manifest(k, q.appName, q.image_tag, q.port, q.env_list) \in k8s
                      /\ \A k \in ResourceNames :
                            tmpFiles[TmpPath(k, q.appName)]
                                = Manifest(k, q.appName, q.image_tag, q.port, q.env_list)

\* the objects of a kind that belong to the app of a name
ObjectsOf(kind, name) ==
    { o \in k8s : /\ o.kind = kind
                  /\ IF kind = "namespace" THEN o.name = NamespaceOf(name)
                     ELSE o.namespace = NamespaceOf(name) }

\* C20: re-running a deployment for the same app is an update: whatever
\* was applied before, the cluster holds at most one object of each kind
\* for an app and no two objects of the same (kind, name, namespace), and
\* every object's name and namespace are those computed from the sanitized
\* app name alone.
C20_ReapplyIsUpdate ==
    /\ \A o1, o2 \in k8s : ObjectKey(o1) = ObjectKey(o2) => o1 = o2
    /\ \A r \in DOMAIN req : \A k \in ResourceNames :
          Cardinality(ObjectsOf(k, req[r].appName)) <= 1
    /\ \A o \in k8s : \E r \in DOMAIN req :
          LET s == sanitize_name(req[r].appName)
          IN  /\ o.name = ObjectName(o.kind, s)
              /\ o.namespace = ObjectNamespace(o.kind, s)

\* C20 witness: the same app deployed twice, both runs applied all eight
\* manifests without an error and ended ready, and the cluster holds eight
\* objects
C20_Witness_DeployedTwice ==
    /\ Len(req) = 2
    /\ req[1].appName = req[2].appName
    /\ \A r \in DOMAIN req :
          /\ req[r].response.kind = "redirect"
          /\ Len(req[r].applied) = Len(ApplyCommands)
    /\ Cardinality(k8s) = Len(ApplyCommands)

\* the objects of the namespace of the app name n, the Namespace included
InNamespaceOf(objs, n) ==
    { o \in objs : (o.kind = "namespace" /\ o.name = NamespaceOf(n))
                   \/ o.namespace = NamespaceOf(n) }

\* C21: a delete_app call never raises; when the namespace of the app does
\* not exist it leaves the objects of the cluster as they are, and when
\* it exists the namespace and every object in it are gone after the call,
\* and the objects of other namespaces stay.
C21_DeleteRemovesNamespace ==
    [][\A n \in RequestNames :
          CallDeleteApp(n) =>
             /\ lastCall'.raised = FALSE
             /\ (InNamespaceOf(k8s, n) = {} => k8s' = k8s)
             /\ InNamespaceOf(k8s', n) = {}
             /\ k8s' = k8s \ InNamespaceOf(k8s, n)]_vars

\* a delete_app call was made on a deployed app: nothing of its namespace
\* is left, and the request had applied all eight resources
C21_Witness_DeployedThenDeleted ==
    /\ lastCall.op = "delete_app"
    /\ \E r \in DOMAIN req :
          /\ Len(req[r].applied) = Len(ApplyCommands)
          /\ NamespaceOf(req[r].appName) = NamespaceOf(lastCall.arg)
          /\ InNamespaceOf(k8s, req[r].appName) = {}
          /\ k8s = {SystemNamespace}

\* the Namespace that request r applied is in the cluster, with its label
NamespaceDeployed(r) ==
    /\ "namespace" \in Range(req[r].applied)
    /\ \E o \in k8s : /\ o.kind = "namespace"
                      /\ o.name = NamespaceOf(req[r].appName)
                      /\ o.managedBy = ManagedBy

\* C22: a list_all_apps call returns the app name as it was given to the
\* deployment, for every deployment whose labelled namespace is in the
\* cluster, also when the name differs from its sanitized form.
C22_ListReturnsOriginalNames ==
    [][CallListAllApps =>
          \A r \in DOMAIN req :
             NamespaceDeployed(r) => req[r].appName \in lastCall'.result]_vars

\* the bootstrap log holds the command, ended that way
RanWith(q, cmd, out) == \E i \in DOMAIN q.boot : q.boot[i] = Ran(cmd, out)

\* the bootstrap of the request ran to its end: the liveness check came
\* first, with a successful start when the host was not running, and the
\* addon check after it, with a successful enable when it was not enabled
BootstrapCompleted(q) ==
    /\ Positions(q.cmds, "bootstrap") # {}
    /\ Len(q.boot) >= 2
    /\ q.boot[1].cmd = "minikube status"
    /\ q.boot[1].out # "Running" => q.boot[2] = Ran("minikube start", "ok")
    /\ \E i \in DOMAIN q.boot :
          /\ i > 1
          /\ q.boot[i].cmd = "minikube addons list"
          /\ q.boot[i].out # "enabled" =>
                (i < Len(q.boot) /\ q.boot[i + 1] = Ran("minikube addons enable ingress", "ok"))

\* C23: a request applies manifests only after its own bootstrap has
\* completed (liveness check, start when not running, ingress check, in
\* that order before the apply); a request whose cluster start or addon
\* enable failed ends in failure with nothing applied; a request whose
\* ingress readiness wait timed out is not failed by the bootstrap.
C23_BootstrapBeforeApply ==
    \A r \in DOMAIN req :
       LET q == req[r]
       IN  /\ (q.applied # <<>> \/ Positions(q.cmds, "kubectl apply") # {}) =>
                 /\ BootstrapCompleted(q)
                 /\ \A j \in Positions(q.cmds, "kubectl apply") :
                       \E i \in Positions(q.cmds, "bootstrap") : i < j
           /\ (RanWith(q, "minikube start", "failed")
                 \/ RanWith(q, "minikube addons enable ingress", "failed")) =>
                 /\ q.pc = "end" /\ q.failure.stage = "bootstrap"
                 /\ q.applied = <<>>
                 /\ Positions(q.cmds, "kubectl apply") = {}
                 /\ k8s = {}
           /\ RanWith(q, "kubectl wait", "timeout") =>
                 /\ q.failure.stage # "bootstrap"
                 /\ q.pc \in {"load", "files", "apply"} =>
                       (q.failure = NoFailure /\ q.response = NoResponse)

\* the cluster was started and the ingress readiness wait timed out, and
\* the request applied all eight resources
C23_Witness_AppliedAfterWaitTimeout ==
    \E r \in DOMAIN req :
       /\ RanWith(req[r], "minikube start", "ok")
       /\ RanWith(req[r], "kubectl wait", "timeout")
       /\ Len(req[r].applied) = Len(ApplyCommands)
       /\ k8s # {}

\* C24: at every loop test of a readiness wait, the last pod sample (or
\* the start of the wait) lies no further back than 30 seconds plus one
\* iteration of the loop, whatever the latency of the status queries.
C24_SampledEvery30Seconds ==
    pc = "wait" => elapsed - lastSample <= SamplePeriod + PollInterval + MaxLatency

\* C25: every manifest a request hands to the cluster is the manifest this
\* request formatted for that resource from its own name, image and port,
\* also when another request whose name sanitizes to the same identifier
\* is served at the same time.
C25_AppliesOwnManifests ==
    \A r \in DOMAIN req :
       LET q == req[r]
       IN  \A m \in q.sent : m = Manifest(m.kind, q.appName, q.image_tag, q.port, q.env_list)

\* C26: the Deployment manifest a request applies holds in its container
\* env, in the order of submission, every pair of the request's envVars
\* that passes the parsing filter.
C26_SubmittedEnvInManifest ==
    \A r \in DOMAIN req :
       \A m \in req[r].sent :
          m.kind = "deployment" => m.env = extract_env_vars(req[r].envVars)

\* C27: whenever the registry file holds a list, no two of its records
\* have the same app name: a second deployment of a recorded app does not
\* add a second record.
C27_OneRecordPerApp ==
    IsJsonList(dataFile) =>
        LET records == JsonLoad(dataFile)
        IN  \A i, j \in DOMAIN records :
               records[i].appName = records[j].appName => i = j

====
